---------------------------- MODULE Spec2Model ----------------------------
(***************************************************************************)
(* A model of lighthouse's display.c: the viewport window of               *)
(* draw_result_text, the cursor tracking of draw_typed_line, the image     *)
(* scaling of draw_image, the token loops of draw_line and draw_desc and   *)
(* the drawing mutex.                                                      *)
(*                                                                         *)
(* Machine integers.  A uint32_t (or int32_t) value v is represented by    *)
(* the integer congruent to v modulo 2^32 that lies in -2^31 .. 2^31 - 1   *)
(* (its two's complement reading).  With that representation + and - are   *)
(* the C operations as long as no intermediate result leaves the range     *)
(* (TLC stops with an overflow error if one does), a conversion between    *)
(* int32_t and uint32_t is the identity, a signed comparison is < and an   *)
(* unsigned comparison is ULt below.  So 0 - 1 is -1, which as a uint32_t  *)
(* is 4294967295, the largest value.                                       *)
(***************************************************************************)
EXTENDS Integers, Sequences, FiniteSets, TLC

(***************************************************************************)
(* Bounds of the model.                                                    *)
(***************************************************************************)
MaxCount == 5
MaxHighlight == 6
MaxRowHeight == 2
MaxWinHeight == 6
MaxTokens == 3
MaxImage == 22
MaxBox == 13
MaxQuery == 4
RaceCount == 2
PanelCount == 3

VARIABLES
  settings,          \* settings.height, settings.max_height, ... (configuration)
  results,           \* global.results: the result buffer, one record per result
  result_count,      \* global.result_count
  result_highlight,  \* global.result_highlight
  result_offset,     \* global.result_offset
  display_results,   \* draw_result_text's local, as the last call left it
  rows,              \* the <<index, line>> pairs the last call passed to draw_line
  window,            \* what the last call told the window system and draw_desc
  last               \* what the last call started from (for the claims)

viewVars == <<results, result_count, result_highlight, result_offset,
              display_results, rows, window, last>>

VARIABLES
  real_font_size,    \* global.real_font_size
  pc,                \* pc[t]: where thread t is
  draw_mutex,        \* global.draw_mutex: the thread that holds it, or NoThread
  frame,             \* frame[t]: the arguments and locals of t's draw_* call
  obs,               \* obs[t]: what the last iteration of t's token loop did
  locals             \* locals[t]: the locals of t's draw_result_text call

drawVars == <<real_font_size, pc, draw_mutex, frame, obs, locals>>

VARIABLES
  image,             \* draw_image's arguments: the file and the bounding box
  format             \* the image_format_t draw_image returned for them

imageVars == <<image, format>>

vars == <<settings, viewVars, drawVars, imageVars>>

(***************************************************************************)
(* The initial values of the parts a specification does not use.           *)
(***************************************************************************)
NoImage == [exists |-> FALSE, width |-> 0, height |-> 0]

ViewIdle ==
  /\ results = << >>
  /\ result_count = 0
  /\ result_highlight = 0
  /\ result_offset = 0
  /\ display_results = 0
  /\ rows = << >>
  /\ window = [width |-> 0, height |-> 0, desc |-> FALSE, anchor |-> "none"]
  /\ last = [how |-> "init", highlight |-> 0, offset |-> 0, branch |-> "keep",
            walk |-> FALSE]

DrawIdle ==
  /\ real_font_size = 0
  /\ pc = << >>
  /\ draw_mutex = 0
  /\ frame = << >>
  /\ obs = << >>
  /\ locals = << >>

ImageIdle ==
  /\ image = [file |-> NoImage, win_size_x |-> 0, win_size_y |-> 0]
  /\ format = [drawn |-> FALSE, width |-> 0, height |-> 0]

(***************************************************************************)
(* Unsigned 32-bit comparisons on the two's complement representation.     *)
(***************************************************************************)
ULt(a, b) == IF (a >= 0) = (b >= 0) THEN a < b ELSE a >= 0

ULe(a, b) == a = b \/ ULt(a, b)

\* #define min(a,b) ((a) < (b) ? (a) : (b)) on two uint32_t operands
UMin(a, b) == IF ULt(a, b) THEN a ELSE b

(***************************************************************************)
(* draw_result_text, sequentially.                                         *)
(***************************************************************************)
\* uint32_t max_results = settings.max_height / settings.height - 1;
MaxResults(s) == (s.max_height \div s.height) - 1

\* A clamp that compares with the count itself: a highlight equal to the count stays.
ClampHighlightAtCount(count, highlight) ==
  IF ULt(count, highlight) THEN count - 1 ELSE highlight

\* if (global.result_count - 1 < global.result_highlight)
\*   global.result_highlight = global.result_count - 1;
ClampHighlight(count, highlight) ==
  IF ULt(count - 1, highlight) THEN count - 1 ELSE highlight

\* A scroll that puts the highlight on the first visible row.
ScrollDownOffsetToHighlight(highlight, display) == highlight

\* The window pins the highlight as the last visible row when it fell below.
ScrollDownOffset(highlight, display) == highlight - (display - 1)

\* display_results = global.result_count - global.result_offset;
RecomputedDisplay(count, offset) == count - offset

\* A window that puts the highlight on its first row when it fell below.
ViewportWindowPinTop(count, highlight, offset, max_results) ==
  LET display == UMin(count, max_results) IN
  IF ULt(offset + display, highlight + 1)
    THEN [offset |-> highlight, display |-> RecomputedDisplay(count, highlight),
          branch |-> "below"]
    ELSE IF ULt(highlight, offset)
      THEN [offset |-> highlight, display |-> display, branch |-> "above"]
      ELSE [offset |-> offset, display |-> display, branch |-> "keep"]

\* The viewport computation: the offset and the number of rows to display.
ViewportWindow(count, highlight, offset, max_results) ==
  LET display == UMin(count, max_results) IN
  IF ULt(offset + display, highlight + 1)
    THEN LET o == ScrollDownOffset(highlight, display) IN
         [offset |-> o, display |-> RecomputedDisplay(count, o), branch |-> "below"]
    ELSE IF ULt(highlight, offset)
      THEN [offset |-> highlight, display |-> display, branch |-> "above"]
      ELSE [offset |-> offset, display |-> display, branch |-> "keep"]

\* for (index = global.result_offset, line = 1;
\*      index < global.result_offset + display_results; index++, line++)
\* index is an int32_t and the bound a uint32_t: the comparison is unsigned.
RowLoop(offset, display) ==
  LET bound == offset + display IN
  IF ULt(offset, bound)
    THEN [line \in 1 .. (bound - offset) |-> <<offset + line - 1, line>>]
    ELSE << >>

\* min(settings.height * (global.result_count + 1), settings.max_height)
NewHeight(s, count) == UMin(s.height * (count + 1), s.max_height)

\* results[global.result_highlight].desc, read only when the highlight is in range
HighlightHasDesc(rs, count, highlight) ==
  /\ ULt(highlight, count)
  /\ highlight + 1 \in DOMAIN rs
  /\ rs[highlight + 1].desc

\* A resize that never makes room for the description.
PanelGeometryRowsOnly(s, rs, count, highlight) ==
  [width |-> s.width, height |-> NewHeight(s, count), desc |-> FALSE,
   anchor |-> IF s.auto_center THEN "without_desc" ELSE "none"]

\* The resize (and reposition) of the window, and whether draw_desc is called.
PanelGeometry(s, rs, count, highlight) ==
  IF HighlightHasDesc(rs, count, highlight)
    THEN [width |-> s.width + s.desc_size, height |-> NewHeight(s, count),
          desc |-> TRUE,
          anchor |-> IF s.auto_center THEN "with_desc" ELSE "none"]
    ELSE [width |-> s.width, height |-> NewHeight(s, count),
          desc |-> FALSE,
          anchor |-> IF s.auto_center THEN "without_desc" ELSE "none"]

\* Whether the frames so far are a walk down the list: a frame that ended with
\* the highlight and the offset at 0 on a list that is not empty, followed only
\* by frames that redrew the same list with the highlight one row further (or
\* where it was).
WalkFromTop(rs, h, hl, offset) ==
  \/ Len(rs) >= 1 /\ hl = 0 /\ offset = 0
  \/ /\ last.walk
     /\ rs = results
     /\ h < Len(rs)
     /\ h \in {result_highlight, result_highlight + 1}

\* draw_result_text called with the globals holding the result buffer rs (and
\* its count) and the highlight h; how says what its caller changed.
DrawResultText(rs, h, how) ==
  LET count == Len(rs)
      hl == ClampHighlight(count, h)
      vw == ViewportWindow(count, hl, result_offset, MaxResults(settings))
  IN
  /\ results' = rs
  /\ result_count' = count
  /\ result_highlight' = hl
  /\ result_offset' = vw.offset
  /\ display_results' = vw.display
  /\ window' = PanelGeometry(settings, rs, count, hl)
  /\ rows' = RowLoop(vw.offset, vw.display)
  /\ last' = [how |-> how, highlight |-> h, offset |-> result_offset,
              branch |-> vw.branch,
              walk |-> WalkFromTop(rs, h, hl, vw.offset)]
  /\ UNCHANGED <<settings, drawVars, imageVars>>

(***************************************************************************)
(* The callers of draw_result_text (redraw_all and the handlers of the     *)
(* application): each changes the globals and redraws.  A new result set   *)
(* replaces the buffer and its count, and may come with any highlight; a   *)
(* key press moves the highlight.  last.how records what the caller        *)
(* changed: nothing ("none"), the highlight by exactly one row, staying in *)
(* range ("step"), or anything else ("other"); last.highlight and          *)
(* last.offset are the globals as draw_result_text found them.             *)
(***************************************************************************)
ResultSetsOf(D) ==
  UNION {[1 .. n -> [desc : D]] : n \in 0 .. MaxCount}

Redraw ==
  DrawResultText(results, result_highlight, "none")

MoveHighlight(h) ==
  /\ h # result_highlight
  /\ DrawResultText(results, h,
       IF /\ last.how # "init"
          /\ h < result_count
          /\ (h = result_highlight + 1 \/ h = result_highlight - 1)
         THEN "step" ELSE "other")

NewResults(rs, h) ==
  /\ rs # results \/ last.how = "init"
  /\ DrawResultText(rs, h, "other")

\* The configurations: at least one result row fits under the query row.
ViewSettings ==
  {[height |-> h, max_height |-> m, width |-> 8, desc_size |-> 6, auto_center |-> FALSE] :
     h \in 1 .. MaxRowHeight, m \in 2 .. MaxWinHeight}

InitView ==
  /\ settings \in {s \in ViewSettings : s.max_height >= 2 * s.height}
  /\ ViewIdle
  /\ DrawIdle
  /\ ImageIdle

NextView ==
  \/ Redraw
  \/ \E h \in 0 .. MaxHighlight : MoveHighlight(h)
  \/ \E rs \in ResultSetsOf({FALSE}), h \in 0 .. MaxHighlight : NewResults(rs, h)

SpecView == InitView /\ [][NextView]_vars

(***************************************************************************)
(* draw_image.  Its scaling runs in single precision:                      *)
(*   float prop = min((float)win_size_x / format.width,                    *)
(*                    (float)win_size_y / format.height);                  *)
(*   new_format.width = prop * format.width;                               *)
(* A float is modelled by its value: a positive float is [m, k], the value *)
(* m / 2^k with a 24-bit significand 2^23 <= m < 2^24, and zero is         *)
(* [0, 0].  Division and multiplication round to nearest, ties to even,    *)
(* and the conversion to an integer truncates, as IEEE 754 binary32 and C  *)
(* do.  The sizes of the model keep every float normal and every           *)
(* intermediate integer below 2^31.                                        *)
(***************************************************************************)
RoundNearestEven(n, d) ==
  LET q == n \div d
      r == n % d
  IN IF 2 * r > d \/ (2 * r = d /\ q % 2 = 1) THEN q + 1 ELSE q

F32Normal(m, k) == IF m = 2^24 THEN [m |-> 2^23, k |-> k - 1] ELSE [m |-> m, k |-> k]

RECURSIVE F32Scale(_, _, _)
F32Scale(a, b, k) ==
  IF a >= 2^23 * b THEN [n |-> a, k |-> k] ELSE F32Scale(2 * a, b, k + 1)

\* (float)a / b for integers 0 <= a, 1 <= b, both exactly representable
F32Div(a, b) ==
  IF a = 0 THEN [m |-> 0, k |-> 0]
  ELSE LET sc == F32Scale(a, b, 0) IN F32Normal(RoundNearestEven(sc.n, b), sc.k)

F32Lt(f, g) ==
  IF f.m = 0 THEN g.m > 0
  ELSE IF g.m = 0 THEN FALSE
  ELSE IF f.k # g.k THEN f.k > g.k
  ELSE f.m < g.m

\* min(a,b) ((a) < (b) ? (a) : (b)) on two floats
F32Min(f, g) == IF F32Lt(f, g) THEN f ELSE g

RECURSIVE F32Shift(_, _)
F32Shift(p, s) == IF p < 2^(24 + s) THEN s ELSE F32Shift(p, s + 1)

\* f * (float)n for an integer n >= 0
F32MulInt(f, n) ==
  IF f.m = 0 \/ n = 0 THEN [m |-> 0, k |-> 0]
  ELSE LET p == f.m * n
           s == F32Shift(p, 0)
       IN F32Normal(RoundNearestEven(p, 2^s), f.k - s)

\* the conversion of a float (below 2^24 here) to an integer: truncation
F32ToInt(f) == f.m \div 2^(f.k)

\* prop: a bounding size that reads as 2^31 or more (negative here) is larger
\* than any natural size, so the other ratio, which is below 1, is the minimum.
ImageProp(width, height, win_size_x, win_size_y) ==
  IF win_size_x < 0 THEN F32Div(win_size_y, height)
  ELSE IF win_size_y < 0 THEN F32Div(win_size_x, width)
  ELSE F32Min(F32Div(win_size_x, width), F32Div(win_size_y, height))

\* new_format: the size of the resized image
ResizedFormat(file, win_size_x, win_size_y) ==
  LET prop == ImageProp(file.width, file.height, win_size_x, win_size_y) IN
  [width |-> F32ToInt(F32MulInt(prop, file.width)),
   height |-> F32ToInt(F32MulInt(prop, file.height))]

\* A draw_image that keeps the bounding box free for a file it cannot open.
DrawImagePlaceholder(file, win_size_x, win_size_y) ==
  IF ~file.exists
    THEN [width |-> win_size_x, height |-> win_size_y]
    ELSE IF ULt(win_size_x, file.width) \/ ULt(win_size_y, file.height)
      THEN ResizedFormat(file, win_size_x, win_size_y)
      ELSE [width |-> file.width, height |-> file.height]

\* The format draw_image returns.  file is what the path names: whether
\* access() finds it, and the natural size of the surface cairo loads from it.
DrawImage(file, win_size_x, win_size_y) ==
  IF ~file.exists
    THEN [width |-> 0, height |-> 0]
    ELSE IF ULt(win_size_x, file.width) \/ ULt(win_size_y, file.height)
      THEN ResizedFormat(file, win_size_x, win_size_y)
      ELSE [width |-> file.width, height |-> file.height]

NoFormat == [drawn |-> FALSE, width |-> 0, height |-> 0]

\* One call of draw_image on the arguments in image.
DrawImageCall ==
  /\ ~format.drawn
  /\ format' = [drawn |-> TRUE,
                width |-> DrawImage(image.file, image.win_size_x, image.win_size_y).width,
                height |-> DrawImage(image.file, image.win_size_x, image.win_size_y).height]
  /\ UNCHANGED <<settings, viewVars, drawVars, image>>

(***************************************************************************)
(* The tokenizer, parse_result_line, is outside display.c.  A content      *)
(* string is modelled as the sequence of its tokens and the char *c as the *)
(* number of tokens consumed.  A token is a draw_t {type, data} together   *)
(* with what the drawing surface makes of it: the x_advance of a text run, *)
(* the file an image path names.  The none sentinel has data = NULL        *)
(* (data = FALSE here).  The tokenizer returns the next token and steps    *)
(* past it, or, when the text run does not fit the width budget            *)
(* (line_length), the sentinel; its contract does not say where the cursor *)
(* is then, so it is left in place or put at the end of the buffer.        *)
(***************************************************************************)
TextToken(a) == [type |-> "DRAW_TEXT", data |-> TRUE, adv |-> a, file |-> NoImage]

BoldToken(a) == [type |-> "BOLD", data |-> TRUE, adv |-> a, file |-> NoImage]

NewLineToken == [type |-> "NEW_LINE", data |-> TRUE, adv |-> 0, file |-> NoImage]

ImageToken(f) == [type |-> "DRAW_IMAGE", data |-> TRUE, adv |-> 0, file |-> f]

NoneToken == [type |-> "DRAW_TEXT", data |-> FALSE, adv |-> 0, file |-> NoImage]

BudgetExhausted(tok, line_length) ==
  /\ tok.type \in {"DRAW_TEXT", "BOLD"}
  /\ ULt(line_length, tok.adv)

ParseResultLine(text, c, line_length) ==
  IF BudgetExhausted(text[c + 1], line_length)
    THEN {[d |-> NoneToken, c |-> c2] : c2 \in {c, Len(text)}}
    ELSE {[d |-> text[c + 1], c |-> c + 1]}

(***************************************************************************)
(* The frames of the drawing operations.                                   *)
(***************************************************************************)
NoThread == 0

ZeroOffset == [x |-> 0, y |-> 0, image_y |-> 0]

IdleFrame ==
  [op |-> "none", text |-> << >>, line |-> 0, cursor |-> 0, c |-> 0,
   offset |-> ZeroOffset, desc_height |-> 0, cursor_x |-> 0, ret |-> "idle"]

NoObs ==
  [op |-> "none", d |-> NoneToken, dispatched |-> FALSE, line_length |-> 0,
   before |-> ZeroOffset, after |-> ZeroOffset, final |-> ZeroOffset,
   wrapped |-> FALSE, win_size_x |-> 0, win_size_y |-> 0,
   format |-> [width |-> 0, height |-> 0], more |-> FALSE]

\* calculate_line_offset
CalculateLineOffset(line) ==
  [x |-> settings.horiz_padding,
   y |-> settings.height * line + real_font_size,
   image_y |-> settings.height * line]

\* a lock that does not wait for the holder
MutexLockNoWait(t, to) ==
  /\ draw_mutex' = t
  /\ pc' = [pc EXCEPT ![t] = to]

\* pthread_mutex_lock(&global.draw_mutex): blocks while another thread holds it
MutexLock(t, to) ==
  /\ draw_mutex = NoThread
  /\ draw_mutex' = t
  /\ pc' = [pc EXCEPT ![t] = to]

\* pthread_mutex_unlock(&global.draw_mutex), and the return to the caller
MutexUnlock(t) ==
  /\ draw_mutex' = NoThread
  /\ pc' = [pc EXCEPT ![t] = frame[t].ret]
  /\ frame' = [frame EXCEPT ![t] = IdleFrame]
  /\ obs' = [obs EXCEPT ![t] = NoObs]

Call(t, f, to) ==
  /\ frame' = [frame EXCEPT ![t] = f]
  /\ pc' = [pc EXCEPT ![t] = to]

(***************************************************************************)
(* draw_line                                                               *)
(***************************************************************************)
DrawLineLock(t) ==
  /\ pc[t] = "line_lock"
  /\ MutexLock(t, "line_fill")
  /\ UNCHANGED <<settings, viewVars, imageVars, real_font_size, frame, obs, locals>>

\* the background of the row, and offset = calculate_line_offset(line)
DrawLineFill(t) ==
  /\ pc[t] = "line_fill"
  /\ frame' = [frame EXCEPT ![t].offset = CalculateLineOffset(frame[t].line),
                            ![t].c = 0]
  /\ pc' = [pc EXCEPT ![t] = "line_loop"]
  /\ obs' = [obs EXCEPT ![t] = NoObs]
  /\ UNCHANGED <<settings, viewVars, imageVars, real_font_size, draw_mutex, locals>>

\* the switch of draw_line on a token that is not the sentinel
DrawLineDispatch(d, offset) ==
  CASE d.type = "DRAW_IMAGE" ->
         LET fmt == DrawImage(d.file, settings.width - offset.x, settings.height)
         IN [offset |-> [offset EXCEPT !.x = offset.x + fmt.width],
             win_size_x |-> settings.width - offset.x,
             win_size_y |-> settings.height,
             format |-> fmt]
    [] d.type = "NEW_LINE" ->
         [offset |-> offset, win_size_x |-> 0, win_size_y |-> 0,
          format |-> [width |-> 0, height |-> 0]]
    [] OTHER ->
         [offset |-> [offset EXCEPT !.x = offset.x + d.adv],
          win_size_x |-> 0, win_size_y |-> 0,
          format |-> [width |-> 0, height |-> 0]]

\* one iteration of while (c && *c != '\0'), or its end
DrawLineToken(t) ==
  /\ pc[t] = "line_loop"
  /\ frame[t].c < Len(frame[t].text)
  /\ LET f == frame[t]
         line_length == settings.width - f.offset.x
     IN \E r \in ParseResultLine(f.text, f.c, line_length) :
          IF ~r.d.data
            THEN \* if (d.data == NULL) break;
                 /\ frame' = [frame EXCEPT ![t].c = r.c]
                 /\ pc' = [pc EXCEPT ![t] = "line_unlock"]
                 /\ obs' = [obs EXCEPT ![t] =
                      [NoObs EXCEPT !.op = "line", !.d = r.d,
                                    !.line_length = line_length,
                                    !.before = f.offset, !.after = f.offset,
                                    !.final = f.offset]]
            ELSE LET o == DrawLineDispatch(r.d, f.offset) IN
                 /\ frame' = [frame EXCEPT ![t].c = r.c, ![t].offset = o.offset]
                 /\ pc' = pc
                 /\ obs' = [obs EXCEPT ![t] =
                      [op |-> "line", d |-> r.d, dispatched |-> TRUE,
                       line_length |-> line_length,
                       before |-> f.offset, after |-> o.offset, final |-> o.offset,
                       wrapped |-> FALSE,
                       win_size_x |-> o.win_size_x, win_size_y |-> o.win_size_y,
                       format |-> o.format, more |-> r.c < Len(f.text)]]
  /\ UNCHANGED <<settings, viewVars, imageVars, real_font_size, draw_mutex, locals>>

DrawLineEnd(t) ==
  /\ pc[t] = "line_loop"
  /\ frame[t].c = Len(frame[t].text)
  /\ pc' = [pc EXCEPT ![t] = "line_unlock"]
  /\ UNCHANGED <<settings, viewVars, imageVars, real_font_size, draw_mutex, frame,
                 obs, locals>>

DrawLineUnlock(t) ==
  /\ pc[t] = "line_unlock"
  /\ MutexUnlock(t)
  /\ UNCHANGED <<settings, viewVars, imageVars, real_font_size, locals>>

(***************************************************************************)
(* draw_desc                                                               *)
(***************************************************************************)
DrawDescLock(t) ==
  /\ pc[t] = "desc_lock"
  /\ MutexLock(t, "desc_fill")
  /\ UNCHANGED <<settings, viewVars, imageVars, real_font_size, frame, obs, locals>>

\* desc_height, the background of the panel, and the first offset
DrawDescFill(t) ==
  /\ pc[t] = "desc_fill"
  /\ frame' = [frame EXCEPT
       ![t].desc_height = settings.height * (result_count + 1),
       ![t].offset = [x |-> settings.width + 2, y |-> real_font_size, image_y |-> 0],
       ![t].c = 0]
  /\ pc' = [pc EXCEPT ![t] = "desc_loop"]
  /\ obs' = [obs EXCEPT ![t] = NoObs]
  /\ UNCHANGED <<settings, viewVars, imageVars, real_font_size, draw_mutex, locals>>

\* case NEW_LINE of draw_desc
DescNewLine(offset) ==
  [x |-> settings.width,
   y |-> offset.y + settings.font_size,
   image_y |-> offset.image_y + settings.font_size]

\* the wrap after a token that reached the right edge of the panel
DescWrap(offset) ==
  [x |-> settings.width,
   y |-> offset.y + real_font_size,
   image_y |-> offset.image_y + real_font_size]

\* a wrap that already happens when x + font_size reaches the right edge
DescOverflowsAtEdge(offset) ==
  ULe(settings.width + settings.desc_size, offset.x + settings.font_size)

\* if ((offset.x + settings.font_size) > (settings.width + settings.desc_size))
DescOverflows(offset) ==
  ULt(settings.width + settings.desc_size, offset.x + settings.font_size)

\* case DRAW_IMAGE of draw_desc, given the format draw_image returned
DescImageOffset(offset, fmt) ==
  [x |-> offset.x + fmt.width,
   y |-> offset.image_y + fmt.height,
   image_y |-> offset.image_y + fmt.height]

\* the switch of draw_desc; a token with no data (the sentinel) is switched on
\* too, and draw_text draws nothing for it and returns an advance of 0
DrawDescDispatch(d, offset, desc_height) ==
  CASE d.type = "DRAW_IMAGE" ->
         LET fmt == DrawImage(d.file, settings.desc_size, desc_height - offset.image_y)
         IN [offset |-> DescImageOffset(offset, fmt),
             win_size_x |-> settings.desc_size,
             win_size_y |-> desc_height - offset.image_y,
             format |-> fmt]
    [] d.type = "NEW_LINE" ->
         [offset |-> DescNewLine(offset), win_size_x |-> 0, win_size_y |-> 0,
          format |-> [width |-> 0, height |-> 0]]
    [] OTHER ->
         [offset |-> [offset EXCEPT !.x = offset.x + d.adv],
          win_size_x |-> 0, win_size_y |-> 0,
          format |-> [width |-> 0, height |-> 0]]

\* one iteration of while (c && *c != '\0')
DrawDescToken(t) ==
  /\ pc[t] = "desc_loop"
  /\ frame[t].c < Len(frame[t].text)
  /\ LET f == frame[t]
         line_length == settings.desc_size + settings.width - f.offset.x
     IN \E r \in ParseResultLine(f.text, f.c, line_length) :
          LET o == DrawDescDispatch(r.d, f.offset, f.desc_height)
              wrap == DescOverflows(o.offset)
              final == IF wrap THEN DescWrap(o.offset) ELSE o.offset
          IN
          /\ frame' = [frame EXCEPT ![t].c = r.c, ![t].offset = final]
          /\ obs' = [obs EXCEPT ![t] =
                      [op |-> "desc", d |-> r.d, dispatched |-> TRUE,
                       line_length |-> line_length,
                       before |-> f.offset, after |-> o.offset, final |-> final,
                       wrapped |-> wrap,
                       win_size_x |-> o.win_size_x, win_size_y |-> o.win_size_y,
                       format |-> o.format, more |-> r.c < Len(f.text)]]
  /\ UNCHANGED <<settings, viewVars, imageVars, real_font_size, draw_mutex, pc, locals>>

DrawDescEnd(t) ==
  /\ pc[t] = "desc_loop"
  /\ frame[t].c = Len(frame[t].text)
  /\ pc' = [pc EXCEPT ![t] = "desc_unlock"]
  /\ UNCHANGED <<settings, viewVars, imageVars, real_font_size, draw_mutex, frame,
                 obs, locals>>

DrawDescUnlock(t) ==
  /\ pc[t] = "desc_unlock"
  /\ MutexUnlock(t)
  /\ UNCHANGED <<settings, viewVars, imageVars, real_font_size, locals>>

(***************************************************************************)
(* draw_typed_line.  The query text is modelled as the sequence of its     *)
(* glyphs; cairo_text_extents gives a string the x_advance that is the sum *)
(* of its glyphs' advances and the width of its ink, which ends before the *)
(* advance of the last glyph does (by that glyph's bearing).               *)
(***************************************************************************)
RECURSIVE XAdvance(_)
XAdvance(str) ==
  IF str = << >> THEN 0 ELSE str[1].x_advance + XAdvance(Tail(str))

InkWidth(str) ==
  IF str = << >> THEN 0 ELSE XAdvance(str) - str[Len(str)].bearing

\* The conversion of a double to uint32_t, as in
\*   offset.x = settings.width - extents.x_advance;
\* Of a negative value it is undefined: the builds either keep the low 32 bits
\* of the integer (x86-64) or saturate to 0 (AArch64).
DoubleToUint32(v) == IF v >= 0 THEN {v} ELSE {v, 0}

\* The text origin and the cursor position, given the converted origin ox of a
\* text wider than the row.
TypedLayout(text, cursor, line, ox) ==
  LET offset0 == CalculateLineOffset(line)
      cursor_x0 == XAdvance(SubSeq(text, 1, cursor))
      offset_x1 == IF settings.width < InkWidth(text) THEN ox ELSE offset0.x
      cursor_x1 == cursor_x0 + offset_x1
  IN IF cursor_x1 < 0
       THEN [offset_x |-> offset_x1 - (cursor_x1 - 3), cursor_x |-> 0, y |-> offset0.y]
       ELSE [offset_x |-> offset_x1, cursor_x |-> cursor_x1, y |-> offset0.y]

DrawTypedLineLock(t) ==
  /\ pc[t] = "typed_lock"
  /\ MutexLock(t, "typed_fill")
  /\ UNCHANGED <<settings, viewVars, imageVars, real_font_size, frame, obs, locals>>

\* the background of the row
DrawTypedLineFill(t) ==
  /\ pc[t] = "typed_fill"
  /\ pc' = [pc EXCEPT ![t] = "typed_text"]
  /\ UNCHANGED <<settings, viewVars, imageVars, real_font_size, draw_mutex, frame,
                 obs, locals>>

\* the cursor and the text origin, the text and the cursor
DrawTypedLineText(t) ==
  /\ pc[t] = "typed_text"
  /\ \E ox \in DoubleToUint32(settings.width - XAdvance(frame[t].text)) :
       LET l == TypedLayout(frame[t].text, frame[t].cursor, frame[t].line, ox) IN
       frame' = [frame EXCEPT
                   ![t].cursor_x = l.cursor_x,
                   ![t].offset = [x |-> l.offset_x, y |-> l.y, image_y |-> 0]]
  /\ pc' = [pc EXCEPT ![t] = "typed_unlock"]
  /\ UNCHANGED <<settings, viewVars, imageVars, real_font_size, draw_mutex, obs, locals>>

DrawTypedLineUnlock(t) ==
  /\ pc[t] = "typed_unlock"
  /\ MutexUnlock(t)
  /\ UNCHANGED <<settings, viewVars, imageVars, real_font_size, locals>>

(***************************************************************************)
(* The calls.  draw_query_text draws the query on line 0; draw_line and    *)
(* draw_desc are called by draw_result_text, and by the specifications     *)
(* below on every content within the bounds.                               *)
(***************************************************************************)
CallDrawQueryText(t, text, cursor) ==
  /\ pc[t] = "idle"
  /\ Call(t, [IdleFrame EXCEPT !.op = "typed", !.text = text, !.cursor = cursor],
          "typed_lock")
  /\ UNCHANGED <<settings, viewVars, imageVars, real_font_size, draw_mutex, obs, locals>>

CallDrawLine(t, text, line) ==
  /\ pc[t] = "idle"
  /\ Call(t, [IdleFrame EXCEPT !.op = "line", !.text = text, !.line = line],
          "line_lock")
  /\ UNCHANGED <<settings, viewVars, imageVars, real_font_size, draw_mutex, obs, locals>>

CallDrawDesc(t, text) ==
  /\ pc[t] = "idle"
  /\ Call(t, [IdleFrame EXCEPT !.op = "desc", !.text = text], "desc_lock")
  /\ UNCHANGED <<settings, viewVars, imageVars, real_font_size, draw_mutex, obs, locals>>

(***************************************************************************)
(* draw_result_text statement by statement, as a thread runs it while      *)
(* another thread may change the globals: none of it is under the mutex    *)
(* but the bodies of draw_desc and draw_line.  Every statement reads the   *)
(* globals as they are when it runs.                                       *)
(***************************************************************************)
NoLocals ==
  [display_results |-> 0, index |-> 0, line |-> 0,
   passed |-> << >>, done |-> FALSE]

\* results[index].text and results[index].desc; past the end of the buffer the
\* read finds no text
RowText == <<TextToken(1)>>

DescText == <<TextToken(1)>>

ResultText(rs, index) == IF index + 1 \in DOMAIN rs THEN RowText ELSE << >>

Goto(t, to) == pc' = [pc EXCEPT ![t] = to]

\* if (global.result_count - 1 < global.result_highlight)
RtClamp(t) ==
  /\ pc[t] = "rt_clamp"
  /\ Goto(t, IF ClampHighlight(result_count, result_highlight) # result_highlight
               THEN "rt_clamp_set" ELSE "rt_window")
  /\ UNCHANGED <<settings, viewVars, imageVars, real_font_size, draw_mutex, frame,
                 obs, locals>>

\* global.result_highlight = global.result_count - 1;
RtClampSet(t) ==
  /\ pc[t] = "rt_clamp_set"
  /\ result_highlight' = result_count - 1
  /\ Goto(t, "rt_window")
  /\ UNCHANGED <<settings, results, result_count, result_offset, display_results,
                 rows, window, last, imageVars, real_font_size, draw_mutex, frame,
                 obs, locals>>

\* uint32_t display_results = min(global.result_count, max_results);
RtWindow(t) ==
  /\ pc[t] = "rt_window"
  /\ locals' = [locals EXCEPT
       ![t].display_results = UMin(result_count, MaxResults(settings))]
  /\ Goto(t, "rt_below")
  /\ UNCHANGED <<settings, viewVars, imageVars, real_font_size, draw_mutex, frame, obs>>

\* if ((global.result_offset + display_results) < (global.result_highlight + 1))
RtBelow(t) ==
  /\ pc[t] = "rt_below"
  /\ Goto(t, IF ULt(result_offset + locals[t].display_results, result_highlight + 1)
               THEN "rt_below_offset" ELSE "rt_above")
  /\ UNCHANGED <<settings, viewVars, imageVars, real_font_size, draw_mutex, frame,
                 obs, locals>>

\* global.result_offset = global.result_highlight - (display_results - 1);
RtBelowOffset(t) ==
  /\ pc[t] = "rt_below_offset"
  /\ result_offset' = ScrollDownOffset(result_highlight, locals[t].display_results)
  /\ Goto(t, "rt_below_display")
  /\ UNCHANGED <<settings, results, result_count, result_highlight, display_results,
                 rows, window, last, imageVars, real_font_size, draw_mutex, frame,
                 obs, locals>>

\* display_results = global.result_count - global.result_offset;
RtBelowDisplay(t) ==
  /\ pc[t] = "rt_below_display"
  /\ locals' = [locals EXCEPT
       ![t].display_results = RecomputedDisplay(result_count, result_offset)]
  /\ Goto(t, "rt_panel")
  /\ UNCHANGED <<settings, viewVars, imageVars, real_font_size, draw_mutex, frame, obs>>

\* else if (global.result_offset > global.result_highlight)
RtAbove(t) ==
  /\ pc[t] = "rt_above"
  /\ Goto(t, IF ULt(result_highlight, result_offset) THEN "rt_above_set" ELSE "rt_panel")
  /\ UNCHANGED <<settings, viewVars, imageVars, real_font_size, draw_mutex, frame,
                 obs, locals>>

\* global.result_offset = global.result_highlight;
RtAboveSet(t) ==
  /\ pc[t] = "rt_above_set"
  /\ result_offset' = result_highlight
  /\ Goto(t, "rt_panel")
  /\ UNCHANGED <<settings, results, result_count, result_highlight, display_results,
                 rows, window, last, imageVars, real_font_size, draw_mutex, frame,
                 obs, locals>>

\* the resize of the window, and the call of draw_desc for a highlighted result
\* that has a description
RtPanel(t) ==
  /\ pc[t] = "rt_panel"
  /\ window' = PanelGeometry(settings, results, result_count, result_highlight)
  /\ IF HighlightHasDesc(results, result_count, result_highlight)
       THEN Call(t, [IdleFrame EXCEPT !.op = "desc", !.text = DescText,
                                      !.ret = "rt_loop_init"], "desc_lock")
       ELSE Goto(t, "rt_loop_init") /\ frame' = frame
  /\ UNCHANGED <<settings, results, result_count, result_highlight, result_offset,
                 display_results, rows, last, imageVars, real_font_size, draw_mutex,
                 obs, locals>>

\* index = global.result_offset, line = 1
RtLoopInit(t) ==
  /\ pc[t] = "rt_loop_init"
  /\ locals' = [locals EXCEPT ![t].index = result_offset, ![t].line = 1]
  /\ Goto(t, "rt_loop")
  /\ UNCHANGED <<settings, viewVars, imageVars, real_font_size, draw_mutex, frame, obs>>

\* index < global.result_offset + display_results, and the call of draw_line on
\* results[index].text; passed records the index and the result_count of that
\* moment
RtLoop(t) ==
  /\ pc[t] = "rt_loop"
  /\ IF ULt(locals[t].index, result_offset + locals[t].display_results)
       THEN /\ Call(t, [IdleFrame EXCEPT
                          !.op = "line",
                          !.text = ResultText(results, locals[t].index),
                          !.line = locals[t].line,
                          !.ret = "rt_loop_next"], "line_lock")
            /\ locals' = [locals EXCEPT
                 ![t].passed = <<[index |-> locals[t].index,
                                  result_count |-> result_count]>>]
       ELSE /\ Goto(t, "rt_flush")
            /\ UNCHANGED <<frame, locals>>
  /\ UNCHANGED <<settings, viewVars, imageVars, real_font_size, draw_mutex, obs>>

\* index++, line++
RtLoopNext(t) ==
  /\ pc[t] = "rt_loop_next"
  /\ locals' = [locals EXCEPT ![t].index = locals[t].index + 1,
                              ![t].line = locals[t].line + 1,
                              ![t].passed = << >>]
  /\ Goto(t, "rt_loop")
  /\ UNCHANGED <<settings, viewVars, imageVars, real_font_size, draw_mutex, frame, obs>>

\* cairo_surface_flush, xcb_flush and the return
RtFlush(t) ==
  /\ pc[t] = "rt_flush"
  /\ locals' = [locals EXCEPT ![t] = [NoLocals EXCEPT !.done = TRUE]]
  /\ Goto(t, "idle")
  /\ UNCHANGED <<settings, viewVars, imageVars, real_font_size, draw_mutex, frame, obs>>

(***************************************************************************)
(* The threads that redraw: thread 1 handles the input (a key moves the    *)
(* highlight by one row within the list, or the query changes and          *)
(* redraw_all draws the query and the results), thread 2 receives the      *)
(* result sets.                                                            *)
(***************************************************************************)
Threads == {1, 2}

KeyPress(t, h) ==
  /\ pc[t] = "idle"
  /\ h \in {result_highlight - 1, result_highlight + 1}
  /\ 0 <= h /\ h < result_count
  /\ result_highlight' = h
  /\ Goto(t, "rt_clamp")
  /\ UNCHANGED <<settings, results, result_count, result_offset, display_results,
                 rows, window, last, imageVars, real_font_size, draw_mutex, frame,
                 obs, locals>>

NewResultSet(t, rs) ==
  /\ pc[t] = "idle"
  /\ rs # results
  /\ results' = rs
  /\ result_count' = Len(rs)
  /\ Goto(t, "rt_clamp")
  /\ UNCHANGED <<settings, result_highlight, result_offset, display_results,
                 rows, window, last, imageVars, real_font_size, draw_mutex, frame,
                 obs, locals>>

\* redraw_all: draw_query_text, then draw_result_text
RedrawAll(t, text, cursor) ==
  /\ pc[t] = "idle"
  /\ Call(t, [IdleFrame EXCEPT !.op = "typed", !.text = text, !.cursor = cursor,
                               !.ret = "rt_clamp"], "typed_lock")
  /\ UNCHANGED <<settings, viewVars, imageVars, real_font_size, draw_mutex, obs, locals>>

RaceResultSets ==
  UNION {[1 .. n -> [desc : BOOLEAN]] : n \in 1 .. RaceCount}

InitThreads ==
  /\ settings = [width |-> 6, height |-> 3, max_height |-> 9, desc_size |-> 5,
                 font_size |-> 1, horiz_padding |-> 1, auto_center |-> FALSE]
  /\ results \in {rs \in RaceResultSets : Len(rs) = RaceCount}
  /\ result_count = Len(results)
  /\ result_highlight = 0
  /\ result_offset = 0
  /\ display_results = 0
  /\ rows = << >>
  /\ window = [width |-> 0, height |-> 0, desc |-> FALSE, anchor |-> "none"]
  /\ last = [how |-> "init", highlight |-> 0, offset |-> 0, branch |-> "keep",
            walk |-> FALSE]
  /\ ImageIdle
  /\ real_font_size = 1
  /\ pc = [t \in Threads |-> "idle"]
  /\ draw_mutex = NoThread
  /\ frame = [t \in Threads |-> IdleFrame]
  /\ obs = [t \in Threads |-> NoObs]
  /\ locals = [t \in Threads |-> NoLocals]

NextThreads ==
  \/ \E h \in 0 .. RaceCount : KeyPress(1, h)
  \/ RedrawAll(1, <<[x_advance |-> 1, bearing |-> 0]>>, 1)
  \/ \E rs \in RaceResultSets : NewResultSet(2, rs)
  \/ \E t \in Threads : RtClamp(t)
  \/ \E t \in Threads : RtClampSet(t)
  \/ \E t \in Threads : RtWindow(t)
  \/ \E t \in Threads : RtBelow(t)
  \/ \E t \in Threads : RtBelowOffset(t)
  \/ \E t \in Threads : RtBelowDisplay(t)
  \/ \E t \in Threads : RtAbove(t)
  \/ \E t \in Threads : RtAboveSet(t)
  \/ \E t \in Threads : RtPanel(t)
  \/ \E t \in Threads : RtLoopInit(t)
  \/ \E t \in Threads : RtLoop(t)
  \/ \E t \in Threads : RtLoopNext(t)
  \/ \E t \in Threads : RtFlush(t)
  \/ \E t \in Threads : DrawTypedLineLock(t)
  \/ \E t \in Threads : DrawTypedLineFill(t)
  \/ \E t \in Threads : DrawTypedLineText(t)
  \/ \E t \in Threads : DrawTypedLineUnlock(t)
  \/ \E t \in Threads : DrawLineLock(t)
  \/ \E t \in Threads : DrawLineFill(t)
  \/ \E t \in Threads : DrawLineToken(t)
  \/ \E t \in Threads : DrawLineEnd(t)
  \/ \E t \in Threads : DrawLineUnlock(t)
  \/ \E t \in Threads : DrawDescLock(t)
  \/ \E t \in Threads : DrawDescFill(t)
  \/ \E t \in Threads : DrawDescToken(t)
  \/ \E t \in Threads : DrawDescEnd(t)
  \/ \E t \in Threads : DrawDescUnlock(t)

SpecThreads == InitThreads /\ [][NextThreads]_vars

(***************************************************************************)
(* draw_result_text statement by statement in one thread, on result sets   *)
(* with and without descriptions, with the window lower than the list or   *)
(* not, and with auto_center on or off.                                    *)
(***************************************************************************)
PanelResultSets ==
  UNION {[1 .. n -> [desc : BOOLEAN]] : n \in 0 .. PanelCount}

PanelSettings ==
  {[width |-> 6, height |-> 3, max_height |-> m, desc_size |-> 5,
    font_size |-> 1, horiz_padding |-> 1, auto_center |-> a] :
     m \in {6, 9}, a \in BOOLEAN}

InitPanel ==
  /\ settings \in PanelSettings
  /\ ViewIdle
  /\ ImageIdle
  /\ real_font_size = 1
  /\ pc = <<"idle">>
  /\ draw_mutex = NoThread
  /\ frame = <<IdleFrame>>
  /\ obs = <<NoObs>>
  /\ locals = <<NoLocals>>

NextPanel ==
  \/ \E h \in 0 .. PanelCount : KeyPress(1, h)
  \/ \E rs \in PanelResultSets : NewResultSet(1, rs)
  \/ RtClamp(1)
  \/ RtClampSet(1)
  \/ RtWindow(1)
  \/ RtBelow(1)
  \/ RtBelowOffset(1)
  \/ RtBelowDisplay(1)
  \/ RtAbove(1)
  \/ RtAboveSet(1)
  \/ RtPanel(1)
  \/ RtLoopInit(1)
  \/ RtLoop(1)
  \/ RtLoopNext(1)
  \/ RtFlush(1)
  \/ DrawLineLock(1)
  \/ DrawLineFill(1)
  \/ DrawLineToken(1)
  \/ DrawLineEnd(1)
  \/ DrawLineUnlock(1)
  \/ DrawDescLock(1)
  \/ DrawDescFill(1)
  \/ DrawDescToken(1)
  \/ DrawDescEnd(1)
  \/ DrawDescUnlock(1)

SpecPanel == InitPanel /\ [][NextPanel]_vars

(***************************************************************************)
(* draw_query_text alone, on every query and cursor within the bounds.     *)
(***************************************************************************)
Glyphs ==
  {[x_advance |-> 1, bearing |-> 0], [x_advance |-> 2, bearing |-> 0],
   [x_advance |-> 1, bearing |-> 1]}

Queries == UNION {[1 .. n -> Glyphs] : n \in 0 .. MaxQuery}

TypedSettings ==
  [width : {3, 4}, height : {2}, horiz_padding : {0, 1}]

InitTyped ==
  /\ settings \in TypedSettings
  /\ ViewIdle
  /\ ImageIdle
  /\ real_font_size = 1
  /\ pc = <<"idle">>
  /\ draw_mutex = NoThread
  /\ frame = <<IdleFrame>>
  /\ obs = <<NoObs>>
  /\ locals = << >>

NextTyped ==
  \/ \E text \in Queries : \E cursor \in 0 .. Len(text) :
       CallDrawQueryText(1, text, cursor)
  \/ DrawTypedLineLock(1)
  \/ DrawTypedLineFill(1)
  \/ DrawTypedLineText(1)
  \/ DrawTypedLineUnlock(1)

SpecTyped == InitTyped /\ [][NextTyped]_vars

(***************************************************************************)
(* draw_line and draw_desc alone, on every content within the bounds.      *)
(***************************************************************************)
LayoutTokens ==
  {TextToken(1), TextToken(3), BoldToken(2), NewLineToken,
   ImageToken(NoImage),
   ImageToken([exists |-> TRUE, width |-> 1, height |-> 1]),
   ImageToken([exists |-> TRUE, width |-> 7, height |-> 4])}

Contents == UNION {[1 .. n -> LayoutTokens] : n \in 0 .. MaxTokens}

\* The configurations: the description panel is wider than a character.
LayoutSettings ==
  {s \in [width : {6}, height : {3}, desc_size : {5}, font_size : {1, 2},
          horiz_padding : {1}] : s.desc_size >= s.font_size + 2}

\* draw_desc is only called on the description of a highlighted result, so
\* with at least one result: here the list is that one result.
InitLayout ==
  /\ settings \in LayoutSettings
  /\ results = <<[desc |-> TRUE]>>
  /\ result_count = 1
  /\ result_highlight = 0
  /\ result_offset = 0
  /\ display_results = 1
  /\ rows = << >>
  /\ window = [width |-> 0, height |-> 0, desc |-> FALSE, anchor |-> "none"]
  /\ last = [how |-> "init", highlight |-> 0, offset |-> 0, branch |-> "keep",
             walk |-> FALSE]
  /\ ImageIdle
  /\ real_font_size \in {settings.font_size, settings.font_size + 1}
  /\ pc = <<"idle">>
  /\ draw_mutex = NoThread
  /\ frame = <<IdleFrame>>
  /\ obs = <<NoObs>>
  /\ locals = << >>

NextLayout ==
  \/ \E text \in Contents, line \in {1, 2} : CallDrawLine(1, text, line)
  \/ \E text \in Contents : CallDrawDesc(1, text)
  \/ DrawLineLock(1)
  \/ DrawLineFill(1)
  \/ DrawLineToken(1)
  \/ DrawLineEnd(1)
  \/ DrawLineUnlock(1)
  \/ DrawDescLock(1)
  \/ DrawDescFill(1)
  \/ DrawDescToken(1)
  \/ DrawDescEnd(1)
  \/ DrawDescUnlock(1)

SpecLayout == InitLayout /\ [][NextLayout]_vars

(***************************************************************************)
(* draw_image alone, on every file and bounding box within the bounds.     *)
(***************************************************************************)
ImageFiles ==
  {NoImage} \cup [exists : {TRUE}, width : 1 .. MaxImage, height : 1 .. MaxImage]

InitImage ==
  /\ settings = [height |-> 1]
  /\ ViewIdle
  /\ DrawIdle
  /\ image \in [file : ImageFiles, win_size_x : 0 .. MaxBox, win_size_y : 0 .. MaxBox]
  /\ format = NoFormat

NextImage == DrawImageCall

SpecImage == InitImage /\ [][NextImage]_vars

(***************************************************************************)
(* The claims about the viewport window.                                   *)
(***************************************************************************)
Drawn == last.how # "init"

C2_DisplayBounded ==
  (Drawn /\ ULe(1, result_count)) =>
    /\ ULe(display_results, MaxResults(settings))
    /\ ULe(display_results, result_count)
    /\ \A i \in DOMAIN rows : ULe(rows[i][2], MaxResults(settings))

\* C3: a run entered with result_highlight >= result_count leaves
\* result_highlight = result_count - 1, or 0 when result_count = 0; with
\* result_count = 0 it draws no row and leaves result_highlight and
\* result_offset at 0.
C3_Clamp ==
  /\ (Drawn /\ ULe(result_count, last.highlight)) =>
       result_highlight = (IF result_count = 0 THEN 0 ELSE result_count - 1)
  /\ (Drawn /\ result_count = 0) =>
       /\ rows = << >>
       /\ result_highlight = 0
       /\ result_offset = 0

C14_ScrollToEnd ==
  (/\ last.walk
   /\ result_count > MaxResults(settings)
   /\ result_highlight = result_count - 1) =>
     /\ result_offset = result_count - MaxResults(settings)
     /\ display_results = MaxResults(settings)

\* C14's case: five results, three visible rows, the highlight walked from 0
\* to 4: offset 2, display 3.
C14_Witness ==
  /\ last.walk
  /\ last.how = "step"
  /\ result_count = 5
  /\ MaxResults(settings) = 3
  /\ result_highlight = 4
  /\ result_offset = 2
  /\ display_results = 3

\* C17: after any sequence of changes of the result set and of the highlight,
\* with result_offset kept from frame to frame, every index draw_result_text
\* passes to draw_line satisfies 0 <= index < result_count: result_offset +
\* display_results <= result_count after the viewport computation.
C17_RowsInRange ==
  Drawn =>
    /\ \A i \in DOMAIN rows : 0 <= rows[i][1] /\ rows[i][1] < result_count
    /\ result_count >= 1 => result_offset + display_results <= result_count

(***************************************************************************)
\* (trunc(w * s), trunc(h * s)) for s = min(W / w, H / h) in exact arithmetic:
\* the side that decides s comes out as the box's.
ExactScaled(file, W, H) ==
  IF W * file.height <= H * file.width
    THEN [width |-> W, height |-> (W * file.height) \div file.width]
    ELSE [width |-> (H * file.width) \div file.height, height |-> H]

\* C6: for natural size (w,h) and bounding box (W,H), an image that fits is
\* returned at its natural size; otherwise the format is
\* (trunc(w*s), trunc(h*s)) with s = min(W/w, H/h) < 1; in every case the
\* format is within the box and within the natural size.
C6_ImageScaling ==
  (format.drawn /\ image.file.exists) =>
    LET w == image.file.width
        h == image.file.height
        W == image.win_size_x
        H == image.win_size_y
    IN
    /\ (w <= W /\ h <= H) => (format.width = w /\ format.height = h)
    /\ ~(w <= W /\ h <= H) =>
         /\ format.width = ExactScaled(image.file, W, H).width
         /\ format.height = ExactScaled(image.file, W, H).height
         /\ (W < w \/ H < h)
    /\ format.width <= W
    /\ format.height <= H
    /\ format.width <= w
    /\ format.height <= h

(***************************************************************************)
(* The claims about the drawing operations.                                *)
(***************************************************************************)
\* C5: for any query and any cursor index in [0, length], the cursor_x that
\* draw_typed_line computes satisfies 0 <= cursor_x < settings.width.
C5_CursorBound ==
  \A t \in DOMAIN pc :
    pc[t] = "typed_unlock" =>
      (0 <= frame[t].cursor_x /\ frame[t].cursor_x < settings.width)

\* C9: the token loops of draw_line and draw_desc stop at the none sentinel
\* without drawing it, and a draw operation that has returned has released
\* the drawing mutex.
C9_SentinelStops ==
  \A t \in DOMAIN pc :
    /\ (obs[t].op # "none" /\ ~obs[t].d.data) =>
         (~obs[t].dispatched /\ pc[t] \in {"line_unlock", "desc_unlock"})
    /\ pc[t] = "idle" => draw_mutex # t

MissingImageDrawn(t) ==
  /\ obs[t].op \in {"line", "desc"}
  /\ obs[t].dispatched
  /\ obs[t].d.data
  /\ obs[t].d.type = "DRAW_IMAGE"
  /\ ~obs[t].d.file.exists

PanelEdge == settings.width + settings.desc_size

DescTokenDone(t) == obs[t].op = "desc" /\ obs[t].dispatched

\* C11: in draw_desc a forced line break follows a token exactly when, with
\* that token's advance added, x + font_size exceeds settings.width +
\* settings.desc_size: none while x + font_size is within the edge, and none
\* is skipped once it is beyond it.
C11_WrapTrigger ==
  \A t \in DOMAIN pc :
    DescTokenDone(t) =>
      /\ obs[t].wrapped <=> (obs[t].after.x + settings.font_size > PanelEdge)
      /\ obs[t].wrapped =>
           (obs[t].final.x = settings.width /\ obs[t].final.y > obs[t].after.y)
      /\ ~obs[t].wrapped => obs[t].final = obs[t].after

\* C11's case: a text whose advance puts x + font_size just past the edge,
\* after a text that had put it exactly on the edge without a break.
C11_Witness ==
  \E t \in DOMAIN pc :
    /\ DescTokenDone(t)
    /\ obs[t].d.type = "DRAW_TEXT"
    /\ obs[t].d.data
    /\ obs[t].wrapped
    /\ obs[t].before.x + settings.font_size = PanelEdge
    /\ obs[t].after.x + settings.font_size = PanelEdge + 1

(***************************************************************************)
(* The claims about concurrent redraws.                                    *)
(***************************************************************************)
DrawingBody ==
  {"typed_fill", "typed_text", "typed_unlock",
   "line_fill", "line_loop", "line_unlock",
   "desc_fill", "desc_loop", "desc_unlock"}

LockWait == {"typed_lock", "line_lock", "desc_lock"}

\* C7: at most one of draw_typed_line, draw_line and draw_desc is in its
\* drawing body at any time, and the thread that is holds draw_mutex from the
\* first to the last step of the body.
C7_MutualExclusion ==
  /\ \A t \in DOMAIN pc : pc[t] \in DrawingBody => draw_mutex = t
  /\ Cardinality({t \in DOMAIN pc : pc[t] \in DrawingBody}) <= 1

\* C7's case: one thread is in the token loop of a draw while the other
\* thread has called a draw and waits for the mutex.
C7_Witness ==
  \E t, u \in DOMAIN pc :
    /\ t # u
    /\ pc[t] \in {"line_loop", "desc_loop", "typed_text"}
    /\ pc[u] \in LockWait

\* C8: with a replacement of the result set and a move of the highlight
\* redrawing concurrently, every row index passed to draw_line is below the
\* result_count of that moment, and once both draw_result_text calls have
\* returned result_offset <= result_highlight < result_count.
C8_NoCorruption ==
  /\ \A t \in DOMAIN pc :
       locals[t].passed # << >> =>
         ULt(locals[t].passed[1].index, locals[t].passed[1].result_count)
  /\ (\A t \in DOMAIN pc : pc[t] = "idle" /\ locals[t].done) =>
       (ULe(result_offset, result_highlight) /\ ULt(result_highlight, result_count))

(***************************************************************************)
(* The claims about the panel of one frame.                                *)
(***************************************************************************)
\* C12: the panel draw_desc fills and bounds its images with has the height
\* min(settings.height * (result_count + 1), settings.max_height), the height
\* draw_result_text gave the window in that frame.
C12_PanelHeight ==
  \A t \in DOMAIN pc :
    pc[t] \in {"desc_loop", "desc_unlock"} =>
      /\ frame[t].desc_height = window.height
      /\ frame[t].desc_height <= settings.max_height

HasDescription ==
  /\ result_highlight < result_count
  /\ results[result_highlight + 1].desc

\* C13: the step of draw_result_text that resizes the window gives it the
\* height min(height * (result_count + 1), max_height) and, if and only if the
\* highlighted item has a description, the width width + desc_size and goes
\* on to draw_desc; otherwise it gives it the width settings.width and draws
\* no description; with auto_center it repositions to the anchor of the case.
C13_PanelGeometry ==
  [][\A t \in DOMAIN pc :
       (pc[t] = "rt_panel" /\ pc'[t] # "rt_panel") =>
         LET h == settings.height * (result_count + 1)
             m == IF h < settings.max_height THEN h ELSE settings.max_height
         IN
         /\ window'.height = m
         /\ IF HasDescription
              THEN /\ window'.width = settings.width + settings.desc_size
                   /\ pc'[t] = "desc_lock"
                   /\ frame'[t].op = "desc"
                   /\ settings.auto_center => window'.anchor = "with_desc"
              ELSE /\ window'.width = settings.width
                   /\ pc'[t] = "rt_loop_init"
                   /\ frame'[t].op = "none"
                   /\ settings.auto_center => window'.anchor = "without_desc"]_vars

\* C13's case: with auto_center, a frame whose highlighted item has a
\* description is about to draw it in the widened window.
C13_Witness ==
  \E t \in DOMAIN pc :
    /\ pc[t] = "desc_lock"
    /\ settings.auto_center
    /\ HasDescription
    /\ window.width = settings.width + settings.desc_size
    /\ window.anchor = "with_desc"
    /\ result_highlight >= 1

(***************************************************************************)
(* The claims about the flow of a description.                             *)
(***************************************************************************)
\* C15: in draw_desc the wrap after a token that overflowed applies the same
\* offset update as an explicit NEW_LINE token: x at the left edge of the
\* panel, y and image_y each one text-line height further, whatever the font
\* sizes are.
C15_WrapIsLineBreak ==
  \A t \in DOMAIN pc :
    (DescTokenDone(t) /\ obs[t].wrapped) =>
      obs[t].final = DescNewLine(obs[t].after)

DescImageDone(t) ==
  /\ DescTokenDone(t)
  /\ obs[t].d.data
  /\ obs[t].d.type = "DRAW_IMAGE"

\* C16: in draw_desc an Image token drawn with size (w,h) gives image_y' =
\* image_y + h, y' = image_y' and x' = x + w, and the text baseline y never
\* decreases by it: y' >= y, also for an image lower than a text line and one
\* that failed to load.
C16_ImageRaisesBaseline ==
  \A t \in DOMAIN pc :
    DescImageDone(t) =>
      /\ obs[t].after.image_y = obs[t].before.image_y + obs[t].format.height
      /\ obs[t].after.y = obs[t].after.image_y
      /\ obs[t].after.x = obs[t].before.x + obs[t].format.width
      /\ obs[t].after.y >= obs[t].before.y

\* C18: every image draw_desc draws lies inside the panel horizontally: where
\* it is drawn, x + the drawn width <= settings.width + settings.desc_size.
C18_ImageInsidePanel ==
  \A t \in DOMAIN pc :
    (DescImageDone(t) /\ obs[t].format.width > 0) =>
      obs[t].before.x + obs[t].format.width <= PanelEdge

\* C19: the unsigned budgets never wrap below zero: in draw_desc image_y <=
\* desc_height, so desc_height - image_y is the height that is left, and in
\* draw_line and draw_desc offset.x is not beyond the right edge, so the width
\* budget given to the tokenizer is the width that is left.
C19_BudgetsNeverWrap ==
  \A t \in DOMAIN pc :
    /\ pc[t] = "desc_loop" =>
         /\ frame[t].offset.image_y <= frame[t].desc_height
         /\ frame[t].offset.x <= PanelEdge
    /\ pc[t] = "line_loop" => frame[t].offset.x <= settings.width
    /\ obs[t].op \in {"line", "desc"} =>
         (obs[t].line_length >= 0 /\ obs[t].win_size_y >= 0)

=============================================================================
